---- MODULE Spec2Model ----
(***************************************************************************)
(* A model of proj2_nps.py: the JSON cache file (open_cache, save_cache),  *)
(* the key builder (construct_unique_key), the two cache-consulting fetch  *)
(* paths (make_request_with_cache, get_nearby_places) and the interactive  *)
(* loop of __main__.                                                       *)
(*                                                                         *)
(* Text is modelled as a sequence of tokens (the cache file) or of         *)
(* characters (keys, user input); a Python dict is the sequence of its     *)
(* entries in insertion order.                                             *)
(***************************************************************************)
EXTENDS Integers, Sequences, FiniteSets, TLC

VARIABLES
    file,         \* the cache file proj2_nps.json: [exists, text]
    perm,         \* what the process may do with the file: a subset of {"r","w"}
    web,          \* what the network answers now: request -> body, or NetFail
    CACHE_DICT,   \* the module-level dictionary of line 12
    proc,         \* how many processes have been started on the file so far
    last,         \* the most recent call: what was called and what came of it
    stored,       \* history: per key, the body a completed miss persisted
    pc,           \* __main__: where the interactive loop stands
    states_dict,  \* __main__: state name -> state page URL
    sites_list,   \* __main__: the sites listed for the chosen state
    temp,         \* __main__: the flag of line 263
    keyio,        \* construct_unique_key: the arguments and results of two calls
    run           \* per process: where its make_request_with_cache call stands

vars == <<file, perm, web, CACHE_DICT, proc, last, stored, pc, states_dict,
          sites_list, temp, keyio, run>>

(***************************************************************************)
(* Python values.  A value is [t, v, d]: a str ("s"), a parsed JSON value  *)
(* that is not a string ("j", named by v), None, or a dict ("dict", d).    *)
(***************************************************************************)
PyStr(s) == [t |-> "s", v |-> s, d |-> <<>>]

PyJson(j) == [t |-> "j", v |-> j, d |-> <<>>]

PyNone == [t |-> "none", v |-> "", d |-> <<>>]

PyDict(d) == [t |-> "dict", v |-> "", d |-> d]

\* d.keys()
Keys(d) == {d[i].k : i \in 1..Len(d)}

\* d[k], for k in d.keys()
Get(d, k) == d[CHOOSE i \in 1..Len(d) : d[i].k = k].val

\* d[k] = val: a new key is appended, a known key keeps its place
DictSet(d, k, val) ==
    IF k \in Keys(d)
    THEN [i \in 1..Len(d) |-> IF d[i].k = k THEN [k |-> k, val |-> val] ELSE d[i]]
    ELSE Append(d, [k |-> k, val |-> val])

\* d1 == d2 on dicts: the same keys with the same values, in any order
DictEq(d1, d2) ==
    /\ Keys(d1) = Keys(d2)
    /\ \A k \in Keys(d1) : Get(d1, k) = Get(d2, k)

(***************************************************************************)
(* JSON text, as tokens: punctuation, string literals, other JSON values,  *)
(* and bytes that are no JSON at all.                                      *)
(***************************************************************************)
LB == [t |-> "p", v |-> "{"]

RB == [t |-> "p", v |-> "}"]

Colon == [t |-> "p", v |-> ":"]

Comma == [t |-> "p", v |-> ","]

Junk == [t |-> "x", v |-> "?"]

\* every value written as a string literal, as json.dumps(str(value)) would
Tok_str(val) == [t |-> "s", v |-> val.v]

Tok(val) == [t |-> val.t, v |-> val.v]

RECURSIVE Members(_)
Members(d) ==
    IF d = <<>> THEN <<>>
    ELSE LET m == <<Tok(PyStr(d[1].k)), Colon, Tok(d[1].val)>>
         IN  IF Len(d) = 1 THEN m ELSE m \o <<Comma>> \o Members(Tail(d))

\* json.dumps(cache_dict)
json_dumps(d) == <<LB>> \o Members(d) \o <<RB>>

IsValueTok(tok) == tok.t \in {"s", "j"}

\* the tokens between the braces of a well-formed object
WellFormedMembers(m) ==
    \/ m = <<>>
    \/ /\ Len(m) % 4 = 3
       /\ \A i \in 1..Len(m) :
            CASE i % 4 = 1 -> m[i].t = "s"
              [] i % 4 = 2 -> m[i] = Colon
              [] i % 4 = 3 -> IsValueTok(m[i])
              [] OTHER     -> m[i] = Comma

RECURSIVE PairsToDict(_, _)
PairsToDict(m, acc) ==
    IF Len(m) < 3 THEN acc
    ELSE PairsToDict(SubSeq(m, 5, Len(m)),
                     DictSet(acc, m[1].v, [t |-> m[3].t, v |-> m[3].v, d |-> <<>>]))

\* json.loads(cache_contents): raises on text that is not JSON; a repeated
\* key keeps its last value
json_loads(text) ==
    IF Len(text) = 1 /\ IsValueTok(text[1])
    THEN [raised |-> FALSE, val |-> [t |-> text[1].t, v |-> text[1].v, d |-> <<>>]]
    ELSE IF /\ Len(text) >= 2
            /\ text[1] = LB
            /\ text[Len(text)] = RB
            /\ WellFormedMembers(SubSeq(text, 2, Len(text) - 1))
    THEN [raised |-> FALSE,
          val |-> PyDict(PairsToDict(SubSeq(text, 2, Len(text) - 1), <<>>))]
    ELSE [raised |-> TRUE, val |-> PyNone]

(***************************************************************************)
(* The cache file.                                                         *)
(***************************************************************************)
Absent == [exists |-> FALSE, text |-> <<>>]

FileOf(text) == [exists |-> TRUE, text |-> text]

\* lines 29-32, the body of the try: open for reading, read, parse
open_cache_try(f, p) ==
    IF ~f.exists \/ "r" \notin p
    THEN [raised |-> TRUE, val |-> PyNone]
    ELSE json_loads(f.text)

\* the same without the except clause
open_cache_noexcept(f, p) == open_cache_try(f, p)

\* open_cache(): whatever the try raises becomes the empty dict
open_cache(f, p) ==
    IF open_cache_try(f, p).raised
    THEN [raised |-> FALSE, val |-> PyDict(<<>>)]
    ELSE open_cache_try(f, p)

\* fw.write on a file opened with "a" instead of "w"
write_append(f, text) == FileOf(f.text \o text)

\* open(CACHE_FILENAME, "w"); fw.write(...): the old content is gone
write_file(f, text) == FileOf(text)

RECURSIVE merge(_, _)
merge(base, d) ==
    IF d = <<>> THEN base ELSE merge(DictSet(base, d[1].k, d[1].val), Tail(d))

\* a save that loads the file again and writes the loaded entries with its own
save_cache_merging(d, f, p) ==
    IF "w" \notin p
    THEN [raised |-> TRUE, file |-> f]
    ELSE [raised |-> FALSE,
          file |-> FileOf(json_dumps(
                      IF open_cache(f, p).val.t = "dict"
                      THEN merge(open_cache(f, p).val.d, d) ELSE d))]

\* save_cache(cache_dict): raises when the file cannot be opened for writing
save_cache(d, f, p) ==
    IF "w" \notin p
    THEN [raised |-> TRUE, file |-> f]
    ELSE [raised |-> FALSE, file |-> write_file(f, json_dumps(d))]

(***************************************************************************)
(* The network.  A request is a page URL or a places-API query; the web    *)
(* answers each with a body or not at all.  Bodies are named, and the      *)
(* markup the program looks for in each is given by the tables below.      *)
(***************************************************************************)
BASIC_URL == "https://www.nps.gov"

BASE_URL == "http://www.mapquestapi.com/search/v2/radius"

NetFail == "<no response>"

MI_URL == BASIC_URL \o "/state/mi/index.htm"

OH_URL == BASIC_URL \o "/state/oh/index.htm"

ISRO_URL == BASIC_URL \o "/isro/" \o "index.htm"

SLBE_URL == BASIC_URL \o "/slbe/" \o "index.htm"

\* a page outside the parks site
EXAMPLE_URL == "https://example.test/a"

Zipcodes == {"49931", "49630"}

\* requests.get(BASE_URL, params=params): the query is told apart by its origin
ApiRequest(zipcode) == BASE_URL \o "?origin=" \o zipcode

PageURLs == {BASIC_URL, MI_URL, OH_URL, ISRO_URL, SLBE_URL, EXAMPLE_URL}

Requests == PageURLs \cup {ApiRequest(z) : z \in Zipcodes}

WebA ==
    [r \in Requests |->
        CASE r = BASIC_URL -> "HOME"
          [] r = MI_URL    -> "MI"
          [] r = OH_URL    -> "OH"
          [] r = ISRO_URL  -> "ISRO"
          [] r = SLBE_URL  -> "SLBE"
          [] r = EXAMPLE_URL -> "EXAMPLE"
          [] r = ApiRequest("49931") -> "NEAR1"
          [] OTHER         -> "NEAR2"]

\* the same sites some time later: pages edited, one broken, one query
\* answered with something that is not JSON
WebB ==
    [r \in Requests |->
        CASE r = BASIC_URL -> "HOME"
          [] r = MI_URL    -> "MI2"
          [] r = OH_URL    -> "OH"
          [] r = ISRO_URL  -> "BROKEN"
          [] r = SLBE_URL  -> "SLBE2"
          [] r = EXAMPLE_URL -> "EXAMPLE2"
          [] r = ApiRequest("49931") -> "NEAR3"
          [] OTHER         -> "NOTJSON"]

WebDown == [r \in Requests |-> NetFail]

Webs == {WebA, WebB, WebDown}

\* response.json(): the parsed body, or NetFail's like: it raises on a body
\* that is not JSON
response_json(body) ==
    IF body \in {"NEAR1", "NEAR2", "NEAR3"}
    THEN [raised |-> FALSE, val |-> PyJson(body)]
    ELSE [raised |-> TRUE, val |-> PyNone]

(***************************************************************************)
(* The two cache-consulting fetch paths.  Each returns what the call did:  *)
(* outcome ("return" or "raise"), the value returned, whether it was a     *)
(* hit, the number of network calls, the file afterwards and the local     *)
(* CACHE_DICT at the end of the call.                                      *)
(***************************************************************************)
Result(outcome, ret, hit, net, f, mem) ==
    [outcome |-> outcome, ret |-> ret, hit |-> hit, net |-> net, file |-> f,
     mem |-> mem]

\* make_request_with_cache without line 102
make_request_no_save(baseurl, f, p, w) ==
    LET c == open_cache(f, p)
    IN  IF c.raised \/ c.val.t # "dict"
        THEN Result("raise", PyNone, FALSE, 0, f, <<>>)
        ELSE IF baseurl \in Keys(c.val.d)
        THEN Result("return", Get(c.val.d, baseurl), TRUE, 0, f, c.val.d)
        ELSE IF w[baseurl] = NetFail
        THEN Result("raise", PyNone, FALSE, 1, f, c.val.d)
        ELSE LET d2 == DictSet(c.val.d, baseurl, PyStr(w[baseurl]))
             IN  Result("return", Get(d2, baseurl), FALSE, 1, f, d2)

\* make_request_with_cache with a failed GET caught and an empty body stored
make_request_swallowing(baseurl, f, p, w) ==
    LET c == open_cache(f, p)
    IN  IF c.raised \/ c.val.t # "dict"
        THEN Result("raise", PyNone, FALSE, 0, f, <<>>)
        ELSE IF baseurl \in Keys(c.val.d)
        THEN Result("return", Get(c.val.d, baseurl), TRUE, 0, f, c.val.d)
        ELSE LET d2 == DictSet(c.val.d, baseurl,
                               PyStr(IF w[baseurl] = NetFail THEN "" ELSE w[baseurl]))
                 s  == save_cache(d2, f, p)
             IN  Result("return", Get(d2, baseurl), FALSE, 1, s.file, d2)

\* make_request_with_cache with CACHE_DICT = {baseurl: body} at line 101
make_request_fresh_dict(baseurl, f, p, w) ==
    LET c == open_cache(f, p)
    IN  IF c.raised \/ c.val.t # "dict"
        THEN Result("raise", PyNone, FALSE, 0, f, <<>>)
        ELSE IF baseurl \in Keys(c.val.d)
        THEN Result("return", Get(c.val.d, baseurl), TRUE, 0, f, c.val.d)
        ELSE IF w[baseurl] = NetFail
        THEN Result("raise", PyNone, FALSE, 1, f, c.val.d)
        ELSE LET d2 == DictSet(<<>>, baseurl, PyStr(w[baseurl]))
                 s  == save_cache(d2, f, p)
             IN  Result("return", Get(d2, baseurl), FALSE, 1, s.file, d2)

\* make_request_with_cache looking first into the dict the process's
\* previous call left in memory
make_request_remembering(baseurl, f, p, w) ==
    LET c == open_cache(f, p)
    IN  IF c.raised \/ c.val.t # "dict"
        THEN Result("raise", PyNone, FALSE, 0, f, <<>>)
        ELSE IF baseurl \in Keys(last.mem)
        THEN Result("return", Get(last.mem, baseurl), TRUE, 0, f, last.mem)
        ELSE IF baseurl \in Keys(c.val.d)
        THEN Result("return", Get(c.val.d, baseurl), TRUE, 0, f, c.val.d)
        ELSE IF w[baseurl] = NetFail
        THEN Result("raise", PyNone, FALSE, 1, f, c.val.d)
        ELSE LET d2 == DictSet(c.val.d, baseurl, PyStr(w[baseurl]))
                 s  == save_cache(d2, f, p)
             IN  IF s.raised
                 THEN Result("raise", PyNone, FALSE, 1, s.file, d2)
                 ELSE Result("return", Get(d2, baseurl), FALSE, 1, s.file, d2)

\* make_request_with_cache(baseurl).  A loaded value that is no dict has no
\* keys(): line 96 raises.  A failed GET raises at line 101, a failed save at
\* line 102.
make_request_with_cache(baseurl, f, p, w) ==
    LET c == open_cache(f, p)
    IN  IF c.raised \/ c.val.t # "dict"
        THEN Result("raise", PyNone, FALSE, 0, f, <<>>)
        ELSE IF baseurl \in Keys(c.val.d)
        THEN Result("return", Get(c.val.d, baseurl), TRUE, 0, f, c.val.d)
        ELSE IF w[baseurl] = NetFail
        THEN Result("raise", PyNone, FALSE, 1, f, c.val.d)
        ELSE LET d2 == DictSet(c.val.d, baseurl, PyStr(w[baseurl]))
                 s  == save_cache(d2, f, p)
             IN  IF s.raised
                 THEN Result("raise", PyNone, FALSE, 1, s.file, d2)
                 ELSE Result("return", Get(d2, baseurl), FALSE, 1, s.file, d2)

\* get_nearby_places with a save_cache(CACHE_DICT) after line 240
get_nearby_places_saving(zipcode, f, p, w) ==
    LET c == open_cache(f, p)
    IN  IF c.raised \/ c.val.t # "dict"
        THEN Result("raise", PyNone, FALSE, 0, f, <<>>)
        ELSE IF zipcode \in Keys(c.val.d)
        THEN Result("return", Get(c.val.d, zipcode), TRUE, 0, f, c.val.d)
        ELSE IF w[ApiRequest(zipcode)] = NetFail
        THEN Result("raise", PyNone, FALSE, 1, f, c.val.d)
        ELSE LET j == response_json(w[ApiRequest(zipcode)])
             IN  IF j.raised
                 THEN Result("raise", PyNone, FALSE, 1, f, c.val.d)
                 ELSE LET d2 == DictSet(c.val.d, zipcode, j.val)
                          s  == save_cache(d2, f, p)
                      IN  Result("return", j.val, FALSE, 1, s.file, d2)

\* get_nearby_places(site_object), by the site's zipcode: the entry goes into
\* the local dict only
get_nearby_places(zipcode, f, p, w) ==
    LET c == open_cache(f, p)
    IN  IF c.raised \/ c.val.t # "dict"
        THEN Result("raise", PyNone, FALSE, 0, f, <<>>)
        ELSE IF zipcode \in Keys(c.val.d)
        THEN Result("return", Get(c.val.d, zipcode), TRUE, 0, f, c.val.d)
        ELSE IF w[ApiRequest(zipcode)] = NetFail
        THEN Result("raise", PyNone, FALSE, 1, f, c.val.d)
        ELSE LET j == response_json(w[ApiRequest(zipcode)])
             IN  IF j.raised
                 THEN Result("raise", PyNone, FALSE, 1, f, c.val.d)
                 ELSE Result("return", j.val, FALSE, 1, f,
                             DictSet(c.val.d, zipcode, j.val))

(***************************************************************************)
(* The module used by a client: the two fetch paths called in any order,   *)
(* one process after another on the same cache file, while the web changes.*)
(***************************************************************************)
MaxProcs == 2

\* the URLs and sites the client asks for
ClientURLs == {BASIC_URL, MI_URL, EXAMPLE_URL}

FabricatedStore == <<[k |-> EXAMPLE_URL, val |-> PyStr("BODY")]>>

EarlierStore ==
    <<[k |-> BASIC_URL, val |-> PyStr("OLDHOME")],
      [k |-> "49931", val |-> PyJson("NEAR0")]>>

\* files that hold no JSON: empty, cut short, not JSON at all
MalformedTexts == {<<>>, <<LB, Tok(PyStr(BASIC_URL)), Colon>>, <<Junk>>}

\* files that hold JSON that is no object: a list, a string
NonObjectTexts == {<<Tok(PyJson("[]"))>>, <<Tok(PyStr("BODY"))>>}

StoreTexts ==
    {json_dumps(<<>>), json_dumps(FabricatedStore), json_dumps(EarlierStore)}

InitFiles ==
    {Absent} \cup {FileOf(x) : x \in MalformedTexts \cup NonObjectTexts \cup StoreTexts}

NoCall ==
    [op |-> "none", arg |-> "", outcome |-> "", hit |-> FALSE, net |-> 0,
     ret |-> PyNone, mem |-> <<>>]

Called(op, arg, r) ==
    [op |-> op, arg |-> arg, outcome |-> r.outcome, hit |-> r.hit, net |-> r.net,
     ret |-> r.ret, mem |-> r.mem]

\* the processes that may run at the same time on one cache file
ConcProcs == {"A", "B"}

\* a process that is in no call
Idle == [pc |-> "idle", baseurl |-> "", mem |-> <<>>]

NoRun == [p \in ConcProcs |-> Idle]

NotMain ==
    /\ pc = "imported"
    /\ states_dict = <<>>
    /\ sites_list = <<>>
    /\ temp = 0

InitModule ==
    /\ CACHE_DICT = <<>>
    /\ proc = 1
    /\ last = NoCall
    /\ stored = [u \in PageURLs |-> PyNone]
    /\ keyio = <<>>
    /\ run = NoRun

Init ==
    /\ file \in InitFiles
    /\ perm = {"r", "w"}
    /\ web \in Webs
    /\ InitModule
    /\ NotMain

\* a client calls make_request_with_cache(u)
CallMakeRequest(u) ==
    LET r == make_request_with_cache(u, file, perm, web)
    IN  /\ file' = r.file
        /\ last' = Called("make_request_with_cache", u, r)
        /\ stored' = IF r.outcome = "return" /\ ~r.hit
                     THEN [stored EXCEPT ![u] = r.ret]
                     ELSE stored
        /\ UNCHANGED <<perm, web, CACHE_DICT, proc, pc, states_dict, sites_list,
                       temp, keyio, run>>

\* a client calls get_nearby_places(site) for a site with zipcode z
CallNearbyPlaces(z) ==
    LET r == get_nearby_places(z, file, perm, web)
    IN  /\ file' = r.file
        /\ last' = Called("get_nearby_places", z, r)
        /\ UNCHANGED <<perm, web, CACHE_DICT, proc, stored, pc, states_dict,
                       sites_list, temp, keyio, run>>

\* the process ends and the program is started again on the same file
Restart ==
    /\ proc < MaxProcs
    /\ proc' = proc + 1
    /\ CACHE_DICT' = <<>>
    /\ last' = NoCall
    /\ UNCHANGED <<file, perm, web, stored, pc, states_dict, sites_list, temp,
                   keyio, run>>

\* the sites change what they answer, or stop answering
WebChange ==
    /\ web' \in Webs \ {web}
    /\ UNCHANGED <<file, perm, CACHE_DICT, proc, last, stored, pc, states_dict,
                   sites_list, temp, keyio, run>>

Next ==
    \/ \E u \in ClientURLs : CallMakeRequest(u)
    \/ \E z \in Zipcodes : CallNearbyPlaces(z)
    \/ Restart
    \/ WebChange

Spec == Init /\ [][Next]_vars

(***************************************************************************)
(* What the claims speak of.                                               *)
(***************************************************************************)
\* the file holds a well-formed store: a JSON object
ValidStore(f) ==
    /\ f.exists
    /\ ~json_loads(f.text).raised
    /\ json_loads(f.text).val.t = "dict"

\* the store a file with a well-formed store holds
StoreOf(f) == json_loads(f.text).val.d

\* the file is empty, absent or holds no JSON
Unparseable(f) == ~f.exists \/ json_loads(f.text).raised

\* the file holds, under key k, exactly val
Holds(f, k, val) ==
    /\ ValidStore(f)
    /\ k \in Keys(StoreOf(f))
    /\ Get(StoreOf(f), k) = val

\* C1: a call of make_request_with_cache(u) on a valid store that lacks u
\* makes exactly one GET and, the GET answered, returns the fetched body and
\* leaves it in the file under u; a call for a key the file holds makes no
\* GET and returns the held value; and every call after a completed miss for
\* u, in this process or a later one, makes no GET, returns the body that
\* miss stored and leaves the file as it is.
C1_MissThenHit ==
    [][\A u \in ClientURLs :
        CallMakeRequest(u) =>
          /\ (ValidStore(file) /\ u \notin Keys(StoreOf(file))) =>
                /\ last'.net = 1
                /\ ~last'.hit
                /\ web[u] # NetFail =>
                     /\ last'.outcome = "return"
                     /\ last'.ret = PyStr(web[u])
                     /\ Holds(file', u, PyStr(web[u]))
                     /\ Keys(StoreOf(file')) = Keys(StoreOf(file)) \cup {u}
          /\ (ValidStore(file) /\ u \in Keys(StoreOf(file))) =>
                /\ last'.net = 0
                /\ last'.outcome = "return"
                /\ last'.ret = Get(StoreOf(file), u)
                /\ file' = file
          /\ stored[u] # PyNone =>
                /\ last'.net = 0
                /\ last'.hit
                /\ last'.outcome = "return"
                /\ last'.ret = stored[u]
                /\ file' = file
    ]_vars

\* C1 witness: a later process is served, without a GET and while the web
\* answers something else, the body an earlier process fetched and stored
C1_Witness ==
    /\ proc > 1
    /\ last.op = "make_request_with_cache"
    /\ last.hit
    /\ last.net = 0
    /\ last.arg = MI_URL
    /\ stored[MI_URL] = last.ret
    /\ web[MI_URL] # last.ret.v

\* C2: get_nearby_places leaves the cache file as it was, hit or miss, so the
\* entry a miss puts under the zipcode is in no store loaded afterwards
C2_PlacesNeverPersist ==
    [][\A z \in Zipcodes :
        CallNearbyPlaces(z) =>
          /\ file' = file
          /\ (~last'.hit => z \notin Keys(open_cache(file', perm').val.d))
    ]_vars

\* C2 witness: a miss answered: the entry is in the call's dict, not in the file
C2_Witness ==
    /\ last.op = "get_nearby_places"
    /\ last.outcome = "return"
    /\ ~last.hit
    /\ last.arg \in Keys(last.mem)
    /\ last.arg \notin Keys(open_cache(file, perm).val.d)

\* C8: a call of make_request_with_cache(u) that finds the file empty, absent
\* or unparseable and whose GET is answered leaves a store with the one key u
C8_OneKeyAfterUnparseable ==
    [][\A u \in ClientURLs :
        (CallMakeRequest(u) /\ Unparseable(file) /\ web[u] # NetFail) =>
          /\ last'.outcome = "return"
          /\ ValidStore(file')
          /\ Keys(StoreOf(file')) = {u}
          /\ Len(StoreOf(file')) = 1
    ]_vars

\* C8 witness: such a call has happened on a file that held unparseable text
C8_Witness ==
    /\ last.op = "make_request_with_cache"
    /\ last.outcome = "return"
    /\ ~last.hit
    /\ Len(last.mem) = 1
    /\ ValidStore(file)
    /\ Keys(StoreOf(file)) = {last.arg}

(***************************************************************************)
(* The same client on a file whose permissions change: it may become       *)
(* unreadable, read-only, or both.                                         *)
(***************************************************************************)
Perms == SUBSET {"r", "w"}

InitFault ==
    /\ file \in InitFiles
    /\ perm \in Perms
    /\ web \in Webs
    /\ InitModule
    /\ NotMain

Chmod ==
    /\ perm' \in Perms \ {perm}
    /\ UNCHANGED <<file, web, CACHE_DICT, proc, last, stored, pc, states_dict,
                   sites_list, temp, keyio, run>>

NextFault ==
    \/ \E u \in ClientURLs : CallMakeRequest(u)
    \/ \E z \in Zipcodes : CallNearbyPlaces(z)
    \/ Restart
    \/ WebChange
    \/ Chmod

SpecFault == InitFault /\ [][NextFault]_vars

\* C4: whatever fails in reading, parsing or writing the cache file, a call
\* of make_request_with_cache whose GET is answered returns the response
\* body and does not raise.  (The file holds a store or nothing loadable;
\* a file of JSON that is no object is not the case meant here.)
C4_NoCacheFailureReported ==
    [][\A u \in ClientURLs :
        (/\ CallMakeRequest(u)
         /\ web[u] # NetFail
         /\ (ValidStore(file) \/ Unparseable(file))) =>
          /\ last'.outcome = "return"
          /\ (~last'.hit => last'.ret = PyStr(web[u]))
    ]_vars

(***************************************************************************)
(* The Persistent Cache on its own: open_cache() and save_cache(s) called  *)
(* by a client, on every kind of file.                                     *)
(***************************************************************************)
MaxEntries == 2

StoreKeys == {"k1", "49931", BASIC_URL}

StoreVals == {PyStr("v1"), PyJson("NEAR1")}

\* the dicts of at most MaxEntries entries: string keys, text or JSON values
Stores ==
    {s \in UNION {[1..n -> [k : StoreKeys, val : StoreVals]] : n \in 0..MaxEntries} :
        \A i, j \in 1..Len(s) : i # j => s[i].k # s[j].k}

\* an object written by hand, with a key twice
RepeatedKeyText ==
    <<LB, Tok(PyStr("k1")), Colon, Tok(PyStr("v0")), Comma,
          Tok(PyStr("k1")), Colon, Tok(PyStr("v1")), RB>>

InitCache ==
    /\ file \in InitFiles \cup {FileOf(RepeatedKeyText)}
    /\ perm \in Perms
    /\ web = WebDown
    /\ InitModule
    /\ NotMain

\* a client calls open_cache()
CallOpenCache ==
    LET r == open_cache(file, perm)
    IN  /\ last' = [op |-> "open_cache", arg |-> "",
                    outcome |-> IF r.raised THEN "raise" ELSE "return",
                    hit |-> FALSE, net |-> 0, ret |-> r.val, mem |-> <<>>]
        /\ UNCHANGED <<file, perm, web, CACHE_DICT, proc, stored, pc, states_dict,
                       sites_list, temp, keyio, run>>

\* a client calls save_cache(s)
CallSaveCache(s) ==
    LET r == save_cache(s, file, perm)
    IN  /\ file' = r.file
        /\ last' = [op |-> "save_cache", arg |-> "",
                    outcome |-> IF r.raised THEN "raise" ELSE "return",
                    hit |-> FALSE, net |-> 0, ret |-> PyNone, mem |-> s]
        /\ UNCHANGED <<perm, web, CACHE_DICT, proc, stored, pc, states_dict,
                       sites_list, temp, keyio, run>>

NextCache ==
    \/ CallOpenCache
    \/ \E s \in Stores : CallSaveCache(s)
    \/ Chmod

SpecCache == InitCache /\ [][NextCache]_vars

\* C3: open_cache never raises; it returns the empty dict when the file is
\* absent, unreadable or holds no JSON, and the store itself when the file
\* holds one
C3_OpenCacheFailOpen ==
    [][CallOpenCache =>
        /\ last'.outcome = "return"
        /\ (~file.exists \/ "r" \notin perm \/ file.text \in MalformedTexts) =>
              last'.ret = PyDict(<<>>)
        /\ \A s \in Stores \cup {FabricatedStore, EarlierStore} :
              (file.exists /\ "r" \in perm /\ file.text = json_dumps(s)) =>
                  /\ last'.ret.t = "dict"
                  /\ DictEq(last'.ret.d, s)
        /\ (file.exists /\ "r" \in perm /\ file.text = RepeatedKeyText) =>
              last'.ret = PyDict(<<[k |-> "k1", val |-> PyStr("v1")]>>)
    ]_vars

\* C3 witness: a readable file of malformed text was opened and gave {}
C3_Witness ==
    /\ last.op = "open_cache"
    /\ last.outcome = "return"
    /\ last.ret = PyDict(<<>>)
    /\ file.exists
    /\ "r" \in perm
    /\ file.text \in MalformedTexts \ {<<>>}

\* C7: once save_cache(s) has completed, and until the file is written
\* again, open_cache() on the (readable) file returns a store equal to s,
\* whatever the file held before
C7_SaveOpenRoundTrip ==
    (last.op = "save_cache" /\ last.outcome = "return" /\ "r" \in perm) =>
        /\ ~open_cache(file, perm).raised
        /\ open_cache(file, perm).val.t = "dict"
        /\ DictEq(open_cache(file, perm).val.d, last.mem)
        /\ open_cache(file, perm).val.d = last.mem

\* C7 witness: a store of two entries, one text and one JSON, has been
\* saved, and the readable file holds what json.dumps made of it
C7_Witness ==
    /\ last.op = "save_cache"
    /\ last.outcome = "return"
    /\ Len(last.mem) = 2
    /\ \E i \in 1..2 : last.mem[i].val.t = "j"
    /\ "r" \in perm
    /\ file.text = json_dumps(last.mem)

(***************************************************************************)
(* construct_unique_key.  Strings are sequences of characters; params is a *)
(* dict from string to string, its entries in insertion order.             *)
(***************************************************************************)
MaxParams == 2

\* ord(c), for the characters used here
Ord(c) ==
    CASE c = "/" -> 47
      [] c = "_" -> 95
      [] c = "a" -> 97
      [] c = "b" -> 98
      [] c = "c" -> 99
      [] c = "u" -> 117

\* x < y on str: by the first character that differs, a proper prefix first
RECURSIVE StrLess(_, _)
StrLess(x, y) ==
    IF y = <<>> THEN FALSE
    ELSE IF x = <<>> THEN TRUE
    ELSE IF Head(x) = Head(y) THEN StrLess(Tail(x), Tail(y))
    ELSE Ord(Head(x)) < Ord(Head(y))

\* x put into the sorted list xs, after the elements that are not greater
RECURSIVE Insert(_, _)
Insert(x, xs) ==
    IF xs = <<>> THEN <<x>>
    ELSE IF StrLess(x, Head(xs)) THEN <<x>> \o xs
    ELSE <<Head(xs)>> \o Insert(x, Tail(xs))

\* the list left as it is
sort_skipped(xs) == xs

\* param_strings.sort()
RECURSIVE sort(_)
sort(xs) == IF xs = <<>> THEN <<>> ELSE Insert(Head(xs), sort(Tail(xs)))

\* connector.join(strings)
RECURSIVE join(_, _)
join(connector, strings) ==
    IF strings = <<>> THEN <<>>
    ELSE IF Len(strings) = 1 THEN strings[1]
    ELSE strings[1] \o connector \o join(connector, Tail(strings))

\* lines 73-74: one f"{k}_{params[k]}" per key, in the dict's order
param_strings(params) ==
    [i \in 1..Len(params) |-> params[i].k \o <<"_">> \o params[i].val]

construct_unique_key(baseurl, params) ==
    LET connector == <<"_">>
    IN  baseurl \o connector \o join(connector, sort(param_strings(params)))

BaseURLs == {<<"u">>, <<"u", "/", "a">>}

ParamKeys == {<<"a">>, <<"b">>, <<"a", "_", "b">>}

ParamValues == {<<"c">>, <<"b", "_", "c">>}

\* the dicts of at most MaxParams parameters
ParamDicts ==
    {d \in UNION {[1..n -> [k : ParamKeys, val : ParamValues]] : n \in 0..MaxParams} :
        \A i, j \in 1..Len(d) : i # j => d[i].k # d[j].k}

InitKey ==
    /\ keyio \in [baseurl : BaseURLs, P1 : ParamDicts, P2 : ParamDicts,
                  called : {FALSE}, key1 : {<<>>}, key2 : {<<>>}]
    /\ file = Absent
    /\ perm = {"r", "w"}
    /\ web = WebDown
    /\ CACHE_DICT = <<>>
    /\ proc = 1
    /\ last = NoCall
    /\ stored = [u \in PageURLs |-> PyNone]
    /\ run = NoRun
    /\ NotMain

\* a client builds the keys of (baseurl, P1) and of (baseurl, P2)
CallConstructUniqueKey ==
    /\ ~keyio.called
    /\ keyio' = [keyio EXCEPT !.called = TRUE,
                              !.key1 = construct_unique_key(keyio.baseurl, keyio.P1),
                              !.key2 = construct_unique_key(keyio.baseurl, keyio.P2)]
    /\ UNCHANGED <<file, perm, web, CACHE_DICT, proc, last, stored, pc,
                   states_dict, sites_list, temp, run>>

NextKey == CallConstructUniqueKey

SpecKey == InitKey /\ [][NextKey]_vars

\* the same key/value pairs, in whatever order
SamePairs(P1, P2) ==
    /\ Len(P1) = Len(P2)
    /\ {P1[i] : i \in 1..Len(P1)} = {P2[i] : i \in 1..Len(P2)}

\* C5: two dicts of the same key/value pairs, inserted in whatever order,
\* give the same key
C5_OrderIndependent ==
    (keyio.called /\ SamePairs(keyio.P1, keyio.P2)) => keyio.key1 = keyio.key2

\* C5 witness: the same two parameters in the two orders, keys built
C5_Witness ==
    /\ keyio.called
    /\ Len(keyio.P1) = 2
    /\ keyio.P2 = <<keyio.P1[2], keyio.P1[1]>>
    /\ keyio.key1 = keyio.key2

\* C6: two dicts that differ give different keys
C6_Injective ==
    (keyio.called /\ ~SamePairs(keyio.P1, keyio.P2)) => keyio.key1 # keyio.key2

(***************************************************************************)
(* The pages' markup, as BeautifulSoup finds it in each body.              *)
(***************************************************************************)
\* lines 155-156: the anchors of the state dropdown; find() gives None, and
\* line 156 raises, on a body without one
state_listing(body) ==
    CASE body = "HOME" ->
           [raised |-> FALSE,
            anchors |-> <<[text |-> <<" ", "M", "i">>, href |-> "/state/mi/index.htm"],
                          [text |-> <<"O", "h", " ">>, href |-> "/state/oh/index.htm"]>>]
      [] body = "OLDHOME" ->
           [raised |-> FALSE,
            anchors |-> <<[text |-> <<"M", "i">>, href |-> "/state/mi/index.htm"]>>]
      [] OTHER -> [raised |-> TRUE, anchors |-> <<>>]

\* lines 207-211: the first link of each park block; find_all() gives an
\* empty list on a body without any
park_listing(body) ==
    CASE body = "MI"  -> <<"/isro/", "/slbe/">>
      [] body = "MI2" -> <<"/slbe/">>
      [] OTHER -> <<>>

\* lines 180-186: the hero block and the footer of a site page; find() gives
\* None, and the next line raises, on a body without them
site_fields(body) ==
    CASE body = "ISRO" ->
           [raised |-> FALSE, name |-> "Isle Royale", zipcode |-> "49931"]
      [] body \in {"SLBE", "SLBE2"} ->
           [raised |-> FALSE, name |-> "Sleeping Bear Dunes", zipcode |-> "49630"]
      [] OTHER -> [raised |-> TRUE, name |-> "", zipcode |-> ""]

\* line 274: get_nearby_places(instance)["searchResults"], and lines 279-293
\* on each place; raises on a value without these keys
search_results(val) ==
    IF val.t = "j" /\ val.v \in {"NEAR0", "NEAR1", "NEAR2"}
    THEN [raised |-> FALSE]
    ELSE [raised |-> TRUE]

(***************************************************************************)
(* str methods, on sequences of characters.  "SUP2" is the character       *)
(* SUPERSCRIPT TWO: numeric, not decimal.                                  *)
(***************************************************************************)
DecimalChars == {"0", "1", "2", "3"}

NumericChars == DecimalChars \cup {"SUP2"}

lower_char(c) ==
    CASE c = "E" -> "e"
      [] c = "X" -> "x"
      [] c = "I" -> "i"
      [] c = "T" -> "t"
      [] c = "M" -> "m"
      [] c = "O" -> "o"
      [] c = "H" -> "h"
      [] OTHER -> c

\* s.lower()
lower(s) == [i \in 1..Len(s) |-> lower_char(s[i])]

\* s.strip()
RECURSIVE strip(_)
strip(s) ==
    IF s = <<>> THEN <<>>
    ELSE IF Head(s) = " " THEN strip(Tail(s))
    ELSE IF s[Len(s)] = " " THEN strip(SubSeq(s, 1, Len(s) - 1))
    ELSE s

\* s.isnumeric(): at least one character, and all of them numeric
isnumeric(s) == s # <<>> /\ \A i \in 1..Len(s) : s[i] \in NumericChars

digit(c) == CASE c = "0" -> 0 [] c = "1" -> 1 [] c = "2" -> 2 [] c = "3" -> 3

RECURSIVE int_value(_)
int_value(s) ==
    IF s = <<>> THEN 0 ELSE 10 * int_value(SubSeq(s, 1, Len(s) - 1)) + digit(s[Len(s)])

\* int(s) for an s that isnumeric(): raises ValueError unless every
\* character is a decimal digit
int(s) ==
    IF \A i \in 1..Len(s) : s[i] \in DecimalChars
    THEN [raised |-> FALSE, n |-> int_value(s)]
    ELSE [raised |-> TRUE, n |-> 0]

(***************************************************************************)
(* The scraping functions.  Each returns outcome, what it built, the file  *)
(* afterwards, the number of network calls and the URLs asked for.         *)
(***************************************************************************)
Scrape(outcome, val, f, net, urls) ==
    [outcome |-> outcome, val |-> val, file |-> f, net |-> net, urls |-> urls]

\* build_state_url_dict()
build_state_url_dict(f, p, w) ==
    LET response == make_request_with_cache(BASIC_URL, f, p, w)
    IN  IF response.outcome = "raise"
             \/ response.ret.t # "s"
             \/ state_listing(response.ret.v).raised
        THEN Scrape("raise", <<>>, response.file, response.net, <<BASIC_URL>>)
        ELSE LET a == state_listing(response.ret.v).anchors
                 RECURSIVE Fill(_, _)
                 Fill(i, acc) ==
                     IF i > Len(a) THEN acc
                     ELSE Fill(i + 1, DictSet(acc, strip(lower(a[i].text)),
                                              BASIC_URL \o a[i].href))
             IN  Scrape("return", Fill(1, <<>>), response.file, response.net,
                        <<BASIC_URL>>)

\* get_site_instance(site_url)
get_site_instance(site_url, f, p, w) ==
    LET response1 == make_request_with_cache(site_url, f, p, w)
    IN  IF response1.outcome = "raise"
             \/ response1.ret.t # "s"
             \/ site_fields(response1.ret.v).raised
        THEN Scrape("raise", <<>>, response1.file, response1.net, <<site_url>>)
        ELSE Scrape("return",
                    [name |-> site_fields(response1.ret.v).name,
                     zipcode |-> site_fields(response1.ret.v).zipcode],
                    response1.file, response1.net, <<site_url>>)

\* lines 209-212: the loop over the park blocks, from block i on
RECURSIVE park_loop(_, _, _, _, _, _)
park_loop(hrefs, i, acc, p, w, urls) ==
    IF i > Len(hrefs) THEN Scrape("return", acc.val, acc.file, acc.net, urls)
    ELSE LET park_url == BASIC_URL \o hrefs[i] \o "index.htm"
             site == get_site_instance(park_url, acc.file, p, w)
         IN  IF site.outcome = "raise"
             THEN Scrape("raise", <<>>, site.file, acc.net + site.net,
                         Append(urls, park_url))
             ELSE park_loop(hrefs, i + 1,
                            [val |-> Append(acc.val, site.val), file |-> site.file,
                             net |-> acc.net + site.net],
                            p, w, Append(urls, park_url))

\* get_sites_for_state(state_url)
get_sites_for_state(state_url, f, p, w) ==
    LET response2 == make_request_with_cache(state_url, f, p, w)
    IN  IF response2.outcome = "raise" \/ response2.ret.t # "s"
        THEN Scrape("raise", <<>>, response2.file, response2.net, <<state_url>>)
        ELSE park_loop(park_listing(response2.ret.v), 1,
                       [val |-> <<>>, file |-> response2.file, net |-> response2.net],
                       p, w, <<state_url>>)

(***************************************************************************)
(* __main__: the program run as a script.  pc is "start" before line 245,  *)
(* "state_prompt" at the input of line 247, "site_prompt" at the input of  *)
(* line 265, "done" once the outer loop has ended and "crashed" once an    *)
(* exception has gone uncaught.                                            *)
(***************************************************************************)
exit == <<"e", "x", "i", "t">>

back == <<"b", "a", "c", "k">>

\* what the user may type at a prompt
Inputs ==
    {exit, <<"E", "x", "i", "t">>, back,
     <<"m", "i">>, <<"M", "I">>, <<"o", "h">>, <<"m", "i", " ">>, <<"x">>,
     <<>>, <<"0">>, <<"1">>, <<"2">>, <<"3">>, <<"0", "1">>, <<"SUP2">>}

Typed(op, inp, outcome, net) ==
    [op |-> op, arg |-> "", outcome |-> outcome, hit |-> FALSE, net |-> net,
     ret |-> PyNone, mem |-> inp]

InitMain ==
    /\ file \in InitFiles
    /\ perm = {"r", "w"}
    /\ web \in Webs
    /\ InitModule
    /\ pc = "start"
    /\ states_dict = <<>>
    /\ sites_list = <<>>
    /\ temp = 0

\* line 245
Startup ==
    /\ pc = "start"
    /\ LET r == build_state_url_dict(file, perm, web)
       IN  /\ file' = r.file
           /\ states_dict' = r.val
           /\ pc' = IF r.outcome = "return" THEN "state_prompt" ELSE "crashed"
           /\ last' = Typed("build_state_url_dict", <<>>, r.outcome, r.net)
    /\ UNCHANGED <<perm, web, CACHE_DICT, proc, stored, sites_list, temp, keyio, run>>

\* lines 247-263: one answer to the state prompt
StatePrompt(inp) ==
    /\ pc = "state_prompt"
    /\ LET State == lower(inp)
       IN  IF State = exit
           THEN /\ pc' = "done"
                /\ last' = Typed("state_prompt", inp, "return", 0)
                /\ UNCHANGED <<file, sites_list, temp>>
           ELSE IF lower(State) \in Keys(states_dict)
           THEN LET r == get_sites_for_state(Get(states_dict, State), file, perm, web)
                IN  /\ file' = r.file
                    /\ last' = Typed("state_prompt", inp, r.outcome, r.net)
                    /\ IF r.outcome = "return"
                       THEN /\ sites_list' = r.val
                            /\ temp' = 0
                            /\ pc' = "site_prompt"
                       ELSE /\ pc' = "crashed"
                            /\ UNCHANGED <<sites_list, temp>>
           ELSE /\ pc' = "state_prompt"
                /\ last' = Typed("state_prompt", inp, "return", 0)
                /\ UNCHANGED <<file, sites_list, temp>>
    /\ UNCHANGED <<perm, web, CACHE_DICT, proc, stored, states_dict, keyio, run>>

\* lines 265-297: one answer to the site prompt.  After either break the
\* outer loop's body has ended, and the loop of line 246 goes round again.
SitePrompt(inp) ==
    /\ pc = "site_prompt"
    /\ LET input_number == lower(inp)
       IN  IF input_number = exit
           THEN /\ temp' = 1
                /\ pc' = "state_prompt"
                /\ last' = Typed("site_prompt", inp, "return", 0)
                /\ UNCHANGED file
           ELSE IF input_number = back
           THEN /\ pc' = "state_prompt"
                /\ last' = Typed("site_prompt", inp, "return", 0)
                /\ UNCHANGED <<file, temp>>
           ELSE IF isnumeric(input_number)
           THEN IF int(input_number).raised
                THEN /\ pc' = "crashed"
                     /\ last' = Typed("site_prompt", inp, "raise", 0)
                     /\ UNCHANGED <<file, temp>>
                ELSE IF 0 < int(input_number).n /\ int(input_number).n <= Len(sites_list)
                THEN LET instance == sites_list[int(input_number).n]
                         r == get_nearby_places(instance.zipcode, file, perm, web)
                         ok == r.outcome = "return" /\ ~search_results(r.ret).raised
                     IN  /\ file' = r.file
                         /\ pc' = IF ok THEN "site_prompt" ELSE "crashed"
                         /\ last' = Typed("site_prompt", inp,
                                          IF ok THEN "return" ELSE "raise", r.net)
                         /\ UNCHANGED temp
                ELSE /\ pc' = "site_prompt"
                     /\ last' = Typed("site_prompt", inp, "return", 0)
                     /\ UNCHANGED <<file, temp>>
           ELSE /\ pc' = "site_prompt"
                /\ last' = Typed("site_prompt", inp, "return", 0)
                /\ UNCHANGED <<file, temp>>
    /\ UNCHANGED <<perm, web, CACHE_DICT, proc, stored, states_dict, sites_list,
                   keyio, run>>

\* the program has ended and is run again on the same file
Rerun ==
    /\ pc \in {"done", "crashed"}
    /\ proc < MaxProcs
    /\ proc' = proc + 1
    /\ pc' = "start"
    /\ CACHE_DICT' = <<>>
    /\ states_dict' = <<>>
    /\ sites_list' = <<>>
    /\ temp' = 0
    /\ last' = NoCall
    /\ UNCHANGED <<file, perm, web, stored, keyio, run>>

NextMain ==
    \/ Startup
    \/ \E inp \in Inputs : StatePrompt(inp)
    \/ \E inp \in Inputs : SitePrompt(inp)
    \/ Rerun
    \/ WebChange

SpecMain == InitMain /\ [][NextMain]_vars

\* C9: "exit", typed at the state prompt or at the site prompt, ends the
\* program: no prompt follows
C9_ExitEndsProgram ==
    [][\A inp \in Inputs :
        ((StatePrompt(inp) \/ SitePrompt(inp)) /\ lower(inp) = exit) => pc' = "done"
    ]_vars

\* an integer in 1..n, written in decimal digits
IsChoice(inp, n) ==
    /\ inp # <<>>
    /\ \A i \in 1..Len(inp) : inp[i] \in DecimalChars
    /\ int_value(inp) \in 1..n

\* C10: an answer that is no state name at the state prompt, or that is not
\* "exit", "back" or an integer in 1..N at the site prompt, makes no network
\* call, leaves the cache file as it is, and is followed by the same prompt
C10_InvalidInputHarmless ==
    [][\A inp \in Inputs :
        (\/ /\ StatePrompt(inp)
            /\ lower(inp) # exit
            /\ lower(inp) \notin Keys(states_dict)
         \/ /\ SitePrompt(inp)
            /\ lower(inp) \notin {exit, back}
            /\ ~IsChoice(inp, Len(sites_list))) =>
          /\ pc' = pc
          /\ file' = file
          /\ last'.net = 0
          /\ last'.outcome = "return"
    ]_vars

(***************************************************************************)
(* Two processes on one cache file, each calling make_request_with_cache,  *)
(* their steps interleaved: the load and the lookup (lines 95-96), the GET *)
(* (line 101) and the save (line 102).  No lock is held between them.      *)
(***************************************************************************)
InitConc ==
    /\ file \in {Absent, FileOf(json_dumps(<<>>)), FileOf(json_dumps(EarlierStore))}
    /\ perm = {"r", "w"}
    /\ web \in {WebA, WebB}
    /\ InitModule
    /\ NotMain

\* lines 95-98 in process p: the file is loaded; a hit returns at once, a
\* value without keys() raises, a miss goes on to the GET
Load(p, u) ==
    /\ run[p].pc = "idle"
    /\ LET c == open_cache(file, perm)
       IN  run' = [run EXCEPT ![p] =
                      IF c.val.t # "dict" \/ u \in Keys(c.val.d)
                      THEN Idle
                      ELSE [pc |-> "fetch", baseurl |-> u, mem |-> c.val.d]]
    /\ UNCHANGED <<file, perm, web, CACHE_DICT, proc, last, stored, pc,
                   states_dict, sites_list, temp, keyio>>

\* line 101 in process p: the GET, and the body put into the local dict
Fetch(p) ==
    /\ run[p].pc = "fetch"
    /\ run' = [run EXCEPT ![p] =
                  IF web[run[p].baseurl] = NetFail
                  THEN Idle
                  ELSE [pc |-> "save", baseurl |-> run[p].baseurl,
                        mem |-> DictSet(run[p].mem, run[p].baseurl,
                                        PyStr(web[run[p].baseurl]))]]
    /\ UNCHANGED <<file, perm, web, CACHE_DICT, proc, last, stored, pc,
                   states_dict, sites_list, temp, keyio>>

\* lines 102-103 in process p: the local dict written over the file
Save(p) ==
    /\ run[p].pc = "save"
    /\ file' = save_cache(run[p].mem, file, perm).file
    /\ stored' = [stored EXCEPT ![run[p].baseurl] = Get(run[p].mem, run[p].baseurl)]
    /\ run' = [run EXCEPT ![p] = Idle]
    /\ UNCHANGED <<perm, web, CACHE_DICT, proc, last, pc, states_dict, sites_list,
                   temp, keyio>>

NextConc ==
    \/ \E p \in ConcProcs, u \in ClientURLs : Load(p, u)
    \/ \E p \in ConcProcs : Fetch(p)
    \/ \E p \in ConcProcs : Save(p)

SpecConc == InitConc /\ [][NextConc]_vars

\* an entry that a process has persisted is not in the file
LostUpdate(u) ==
    /\ stored[u] # PyNone
    /\ ValidStore(file)
    /\ u \notin Keys(StoreOf(file))

\* C11: a save writes the saver's own dict over the file, so every entry
\* another process persisted after the saver's load is gone from the file;
\* with two interleaved processes this happens (the witness): an entry one
\* process has persisted is absent after the other's save
C11_StaleSaveClobbers ==
    [][\A p \in ConcProcs :
        Save(p) =>
          /\ ValidStore(file')
          /\ StoreOf(file') = run[p].mem
          /\ \A u \in PageURLs :
                (Holds(file, u, stored[u]) /\ u \notin Keys(run[p].mem)) =>
                    LostUpdate(u)'
    ]_vars

\* C11 witness: both processes are back from their calls, each has persisted
\* its entry, and the entry of one of them is not in the file
C11_Witness ==
    /\ \A p \in ConcProcs : run[p].pc = "idle"
    /\ stored[MI_URL] # PyNone
    /\ stored[EXAMPLE_URL] # PyNone
    /\ LostUpdate(MI_URL)
    /\ Holds(file, EXAMPLE_URL, stored[EXAMPLE_URL])

(***************************************************************************)
(* Further properties of the fetch paths, one process at a time.           *)
(***************************************************************************)
\* the dict open_cache gives for the file, when it gives one
Loaded(f, p) == open_cache(f, p).val.d

\* C12: a GET that fails during a miss raises out of make_request_with_cache,
\* after that one GET, and the file is as before: no entry for the URL
C12_NetworkFailurePropagates ==
    [][\A u \in ClientURLs :
        (/\ CallMakeRequest(u)
         /\ open_cache(file, perm).val.t = "dict"
         /\ u \notin Keys(Loaded(file, perm))
         /\ web[u] = NetFail) =>
          /\ last'.outcome = "raise"
          /\ last'.net = 1
          /\ file' = file
          /\ u \notin Keys(Loaded(file', perm'))
    ]_vars

\* C12 witness: a call has raised after its one GET, and the file, a valid
\* store, has no entry for the URL asked for
C12_Witness ==
    /\ last.op = "make_request_with_cache"
    /\ last.outcome = "raise"
    /\ last.net = 1
    /\ web[last.arg] = NetFail
    /\ ValidStore(file)
    /\ last.arg \notin Keys(StoreOf(file))

\* C14: whatever is called, hit, miss or failed GET, a file that holds a
\* store goes on holding one, with every key it had and the same value
C14_StoreOnlyGrows ==
    [][ValidStore(file) =>
          /\ ValidStore(file')
          /\ \A k \in Keys(StoreOf(file)) : Holds(file', k, Get(StoreOf(file), k))
    ]_vars

\* C14 witness: after a failed GET the file holds the two entries it started
\* with and one more
C14_Witness ==
    /\ last.op = "make_request_with_cache"
    /\ last.outcome = "raise"
    /\ last.net = 1
    /\ Holds(file, BASIC_URL, PyStr("OLDHOME"))
    /\ Holds(file, "49931", PyJson("NEAR0"))
    /\ Len(StoreOf(file)) >= 3

\* C15: get_nearby_places for zipcode z makes a network call unless z is a
\* key of the cache file, and no operation adds a zipcode key to the file
C15_PlacesAlwaysRefetch ==
    [][/\ \A z \in Zipcodes :
            (CallNearbyPlaces(z) /\ ~(ValidStore(file) /\ z \in Keys(StoreOf(file)))) =>
                last'.net = 1
       /\ \A z \in Zipcodes :
            (ValidStore(file') /\ z \in Keys(StoreOf(file'))) =>
                (ValidStore(file) /\ z \in Keys(StoreOf(file)))
    ]_vars

\* C16: what open_cache returns is a dict, whatever the file holds
C16_OpenCacheAlwaysMapping ==
    last.op = "open_cache" => (last.outcome = "return" /\ last.ret.t = "dict")

(***************************************************************************)
(* The client again, while something else removes or replaces the file     *)
(* between its calls.                                                      *)
(***************************************************************************)
\* the file is removed, or put there with other content
FileReplaced ==
    /\ file' \in InitFiles \ {file}
    /\ UNCHANGED <<perm, web, CACHE_DICT, proc, last, stored, pc, states_dict,
                   sites_list, temp, keyio, run>>

NextEnv ==
    \/ \E u \in ClientURLs : CallMakeRequest(u)
    \/ \E z \in Zipcodes : CallNearbyPlaces(z)
    \/ Restart
    \/ WebChange
    \/ FileReplaced

SpecEnv == Init /\ [][NextEnv]_vars

\* C13: a call of make_request_with_cache(u) is a hit exactly when the file,
\* as it is at the call, holds a store with key u, whatever earlier calls of
\* the process fetched or stored; and the module-level CACHE_DICT is empty
\* throughout
C13_HitDecidedByFile ==
    /\ [](CACHE_DICT = <<>>)
    /\ [][\A u \in ClientURLs :
            CallMakeRequest(u) =>
              /\ last'.hit <=> (ValidStore(file) /\ u \in Keys(StoreOf(file)))
              /\ last'.hit => (last'.net = 0 /\ last'.ret = Get(StoreOf(file), u))
              /\ (~last'.hit /\ open_cache(file, perm).val.t = "dict") => last'.net = 1
       ]_vars

\* C13 witness: in its first process the program persisted a body for a URL,
\* the file was then removed or replaced, and its next call for that URL was
\* a miss that went to the network
C13_Witness ==
    /\ proc = 1
    /\ last.op = "make_request_with_cache"
    /\ stored[last.arg] # PyNone
    /\ ~last.hit
    /\ last.net = 1
    /\ last.outcome = "raise"

(***************************************************************************)
(* Listing a state again, in the program run as a script.                  *)
(***************************************************************************)
\* the state pages the home page links to
StateURLs == {MI_URL, OH_URL}

\* the URLs get_sites_for_state(s) asks for, in order, on file f with no
\* network to fall back on
Visits(s, f) == get_sites_for_state(s, f, perm, WebDown).urls

\* on file f, get_sites_for_state(s) returns without a network call and
\* asks for the same URLs in the same order, whatever the web serves
FullyCached(s, f) ==
    \A w \in Webs :
        LET g == get_sites_for_state(s, f, perm, w)
        IN  /\ g.outcome = "return"
            /\ g.net = 0
            /\ g.file = f
            /\ g.urls = Visits(s, f)

\* C17: when get_sites_for_state(s) returns, having listed N sites, it has
\* made at most N+1 network calls and the listing of s is fully cached, with
\* the URLs this call visited; a fully cached listing stays so, with the same
\* URLs in the same order, through every later step of this process and of
\* later ones (a step that leaves the file as it is changes nothing of this);
\* and listing a fully cached state makes no network call
C17_ListingFullyCached ==
    [][\A s \in StateURLs :
        /\ \A inp \in Inputs :
              (/\ StatePrompt(inp)
               /\ lower(inp) \in Keys(states_dict)
               /\ Get(states_dict, lower(inp)) = s) =>
                 LET r == get_sites_for_state(s, file, perm, web)
                 IN  /\ r.outcome = "return" =>
                          /\ r.net <= Len(r.val) + 1
                          /\ Len(r.urls) = Len(r.val) + 1
                          /\ FullyCached(s, file')
                          /\ Visits(s, file') = r.urls
                     /\ FullyCached(s, file) =>
                          /\ last'.outcome = "return"
                          /\ last'.net = 0
                          /\ r.urls = Visits(s, file)
        /\ (file' # file /\ FullyCached(s, file)) =>
              /\ FullyCached(s, file')
              /\ Visits(s, file') = Visits(s, file)
    ]_vars

\* C17 witness: a later process, with the network down, has listed the two
\* sites of a state without a network call
C17_Witness ==
    /\ proc = 2
    /\ web = WebDown
    /\ pc = "site_prompt"
    /\ last.op = "state_prompt"
    /\ last.outcome = "return"
    /\ last.net = 0
    /\ Len(sites_list) = 2
    /\ FullyCached(MI_URL, file)

====
